---- MODULE Spec2Model ----
(***************************************************************************)
(* Mechanical Crab: the serial command loop of src/src/main.rs.            *)
(*                                                                         *)
(* Text is modelled byte by byte: a string is a sequence of one-character  *)
(* strings, a byte above 0x7F is written by its hexadecimal name ("0xE9"). *)
(* The firmware is one sequential process; `pc` is its position in the    *)
(* loop of main().  The operator and the outside world (pin levels, ADC    *)
(* readings) are the environment.                                          *)
(***************************************************************************)
EXTENDS Integers, Sequences, FiniteSets, TLC

(***************************************************************************)
(* Text constants of the program.                                          *)
(***************************************************************************)
HELP ==
    <<"c","o","m","m","a","n","d","s",":"," ","h","e","l","p",","," ","l","e","d"," ",
      "o","n","|","o","f","f",","," ","g","e","t"," ","<","p","i","n",">",","," ","s",
      "e","t"," ","<","p","i","n",">"," ","h","i","g","h","|","l","o","w",","," ","p",
      "w","m"," ","<","0","-","2","5","5",">",","," ","a","d","c"," ","<","0","-","5",
      ">",","," ","t","e","m","p">>
PROMPT == <<">"," ">>
UNKNOWN_PIN == <<"u","n","k","n","o","w","n"," ","p","i","n",":"," ">>
VALID_DIGITAL ==
    <<","," ","v","a","l","i","d"," ","p","i","n","s"," ","a","r","e"," ","2","-","4",
      ","," ","6","-","1","2">>
VALID_ANALOG ==
    <<","," ","v","a","l","i","d"," ","p","i","n","s"," ","a","r","e"," ","0","-","5">>
INVALID_COMMAND ==
    <<"i","n","v","a","l","i","d"," ","c","o","m","m","a","n","d",":"," ">>
TEMP_PREFIX == <<"t","e","m","p",":"," ","0","x">>
NL == "\n"

t_help == <<"h","e","l","p">>
t_led == <<"l","e","d">>
t_get == <<"g","e","t">>
t_set == <<"s","e","t">>
t_pwm == <<"p","w","m">>
t_adc == <<"a","d","c">>
t_temp == <<"t","e","m","p">>
t_space == <<" ">>
t_on == <<"o","n">>
t_off == <<"o","f","f">>
t_high == <<"h","i","g","h">>
t_low == <<"l","o","w">>
t_true == <<"t","r","u","e">>
t_false == <<"f","a","l","s","e">>

\* heapless::String<32>: the capacity of the line buffer, in bytes.
Capacity == 32

\* u8::MAX, the width of every numeric field of Command.
U8Max == 255

DigitChars == <<"0","1","2","3","4","5","6","7","8","9">>
HexChars == <<"0","1","2","3","4","5","6","7","8","9","A","B","C","D","E","F">>

\* char::is_ascii_digit
is_ascii_digit(c) == \E i \in 1..10 : DigitChars[i] = c

\* the value of an ASCII digit (char::to_digit(10))
to_digit(c) == (CHOOSE i \in 1..10 : DigitChars[i] = c) - 1

(***************************************************************************)
(* Bytes and chars.  read_line pushes `byte as char`: the char whose code  *)
(* point is the byte's value.  A byte below 0x80 is an ASCII char, stored  *)
(* in one byte; a byte from 0x80 up is a char of U+0080..U+00FF, which the *)
(* UTF-8 buffer of heapless::String stores in two bytes.                   *)
(***************************************************************************)
HighBytes == {"0xE9"}

\* the UTF-8 encoding of `byte as char` (char::encode_utf8)
encode_utf8(byte) ==
    IF byte = "0xE9" THEN <<"0xC3", "0xA9">> ELSE <<byte>>

\* char::len_utf8 of `byte as char`
len_utf8(byte) == Len(encode_utf8(byte))

(***************************************************************************)
(* Formatting (ufmt).                                                      *)
(***************************************************************************)
RECURSIVE fmt_dec(_)
\* uDisplay of an unsigned integer: decimal, no leading zeros
fmt_dec(n) ==
    IF n < 10 THEN <<DigitChars[n + 1]>>
    ELSE fmt_dec(n \div 10) \o <<DigitChars[(n % 10) + 1]>>

\* uDisplay of bool
fmt_bool(b) == IF b THEN t_true ELSE t_false

RECURSIVE fmt_hex(_)
\* uDisplayHex, upper case, no padding
fmt_hex(n) ==
    IF n < 16 THEN <<HexChars[n + 1]>>
    ELSE fmt_hex(n \div 16) \o <<HexChars[(n % 16) + 1]>>

RECURSIVE pad_zero(_, _)
\* the 0<width> flag: zeros on the left up to the width, never truncating
pad_zero(s, width) ==
    IF Len(s) >= width THEN s ELSE pad_zero(<<"0">> \o s, width)

\* "{:X}": the hexadecimal digits without the padding
fmt_04X_unpadded(n) == fmt_hex(n)

\* "{:04X}"
fmt_04X(n) == pad_zero(fmt_hex(n), 4)

\* uwriteln!: the formatted text and a newline
writeln(s) == s \o <<NL>>

(***************************************************************************)
(* The nom combinators, on a sequence of chars.  An IResult is             *)
(* [ok |-> TRUE, rest |-> the unconsumed input, val |-> the output] or Err. *)
(***************************************************************************)
Err == [ok |-> FALSE]

Ok(rest, val) == [ok |-> TRUE, rest |-> rest, val |-> val]

Drop(s, n) == SubSeq(s, n + 1, Len(s))

\* the value of e, handed to F: e is evaluated once, however often F uses it
Let(e, F(_)) == CHOOSE y \in { F(x) : x \in {e} } : TRUE

\* the ? operator on a result: Err returns at once, Ok is handed on
Try(r, F(_)) == Let(r, LAMBDA x : IF x.ok THEN F(x) ELSE Err)

\* nom::bytes::complete::tag
tag(t, input) ==
    IF Len(t) <= Len(input) /\ SubSeq(input, 1, Len(t)) = t
    THEN Ok(Drop(input, Len(t)), t)
    ELSE Err

\* all_consuming, not looking at the rest
all_consuming_lax(r) == r

\* nom::combinator::all_consuming, applied to a parser's result
all_consuming(r) == Let(r, LAMBDA x : IF x.ok /\ x.rest # <<>> THEN Err ELSE x)

\* nom::combinator::value, applied to a parser's result
value(v, r) == Try(r, LAMBDA x : Ok(x.rest, v))

\* nom::branch::alt of two results: the first that succeeds
alt2(r1, r2) == Let(r1, LAMBDA x : IF x.ok THEN x ELSE r2)

RECURSIVE digit_run(_)
\* take_while1(is_ascii_digit): the length of the leading run of digits
digit_run(input) ==
    IF input # <<>> /\ is_ascii_digit(Head(input))
    THEN 1 + digit_run(Tail(input))
    ELSE 0

RECURSIVE from_str_acc_wrapping(_, _)
\* from_str with wrapping_mul and wrapping_add
from_str_acc_wrapping(acc, digits) ==
    IF digits = <<>> THEN acc
    ELSE from_str_acc_wrapping((acc * 10 + to_digit(Head(digits))) % (U8Max + 1),
                               Tail(digits))

RECURSIVE from_str_acc(_, _)
\* u8::from_str on a run of digits: checked_mul(10) then checked_add(digit) per
\* digit; -1 is Err(PosOverflow)
from_str_acc(acc, digits) ==
    IF digits = <<>> THEN acc
    ELSE IF acc * 10 > U8Max THEN -1
    ELSE IF acc * 10 + to_digit(Head(digits)) > U8Max THEN -1
    ELSE from_str_acc(acc * 10 + to_digit(Head(digits)), Tail(digits))

from_str(digits) == from_str_acc(0, digits)

\* parse_number::<u8>: map_res(recognize(take_while1(is_ascii_digit)), from_str)
parse_number(input) ==
    Let(digit_run(input), LAMBDA n :
        IF n = 0 THEN Err
        ELSE Let(from_str(SubSeq(input, 1, n)), LAMBDA v :
                 IF v < 0 THEN Err ELSE Ok(Drop(input, n), v)))

\* preceded(tag(" "), parse_number)
space_number(input) == Try(tag(t_space, input), LAMBDA sp : parse_number(sp.rest))

Help == [kind |-> "Help"]
Temp == [kind |-> "Temp"]
Led(on) == [kind |-> "Led", on |-> on]
GetPin(pin) == [kind |-> "GetPin", pin |-> pin]
SetPin(pin, val) == [kind |-> "SetPin", pin |-> pin, value |-> val]
Pwm(duty) == [kind |-> "Pwm", duty_cycle |-> duty]
Adc(pin) == [kind |-> "Adc", pin |-> pin]

parse_led_command(input) ==
    Try(tag(t_space, input), LAMBDA sp :
    Try(alt2(value(TRUE, tag(t_on, sp.rest)), value(FALSE, tag(t_off, sp.rest))),
        LAMBDA v : Ok(v.rest, Led(v.val))))

parse_get_pin_command(input) ==
    Try(space_number(input), LAMBDA p : Ok(p.rest, GetPin(p.val)))

parse_set_pin_command(input) ==
    Try(space_number(input), LAMBDA p :
    Try(tag(t_space, p.rest), LAMBDA sp :
    Try(alt2(value(TRUE, tag(t_high, sp.rest)), value(FALSE, tag(t_low, sp.rest))),
        LAMBDA v : Ok(v.rest, SetPin(p.val, v.val)))))

parse_pwm_command(input) ==
    Try(space_number(input), LAMBDA p : Ok(p.rest, Pwm(p.val)))

parse_adc_command(input) ==
    Try(space_number(input), LAMBDA p : Ok(p.rest, Adc(p.val)))

\* the alt((...)) of parse_command: the keyword, tried in the order written
keyword(input) ==
    alt2(all_consuming(tag(t_help, input)),
    alt2(tag(t_led, input),
    alt2(tag(t_get, input),
    alt2(tag(t_set, input),
    alt2(tag(t_pwm, input),
    alt2(tag(t_adc, input),
         all_consuming(tag(t_temp, input))))))))

\* parse_command; the command of kind "Unreachable" is the unreachable!() arm
parse_command(input) ==
    Try(keyword(input), LAMBDA k :
        IF k.val = t_help THEN Ok(k.rest, Help)
        ELSE IF k.val = t_led THEN all_consuming(parse_led_command(k.rest))
        ELSE IF k.val = t_get THEN all_consuming(parse_get_pin_command(k.rest))
        ELSE IF k.val = t_set THEN all_consuming(parse_set_pin_command(k.rest))
        ELSE IF k.val = t_pwm THEN all_consuming(parse_pwm_command(k.rest))
        ELSE IF k.val = t_adc THEN all_consuming(parse_adc_command(k.rest))
        ELSE IF k.val = t_temp THEN Ok(k.rest, Temp)
        ELSE Ok(k.rest, [kind |-> "Unreachable"]))

(***************************************************************************)
(* The lines the operator sends.                                           *)
(***************************************************************************)
\* how far beyond the capacity the overlong filler lines go
MaxOver == 2

Fill(c, n) == [i \in 1..n |-> c]

\* the digital pins, PWM duties and channels the operator's commands name
SentPins == {2, 8}
SentUnknownPins == {0, 5, 13, 255}
SentDuties == {0, 255}
SentChannels == {0, 5, 6, 200}

GetLine(n) == t_get \o t_space \o fmt_dec(n)
SetLine(n, level) == t_set \o t_space \o fmt_dec(n) \o t_space \o level
PwmLine(n) == t_pwm \o t_space \o fmt_dec(n)
AdcLine(n) == t_adc \o t_space \o fmt_dec(n)

\* the commands of the grammar
CommandLines ==
    { t_help, t_temp, t_led \o t_space \o t_on, t_led \o t_space \o t_off,
      t_get \o t_space \o <<"0", "2">> }
    \cup { GetLine(n) : n \in SentPins \cup SentUnknownPins }
    \cup { SetLine(n, l) : n \in SentPins \cup SentUnknownPins, l \in {t_high, t_low} }
    \cup { PwmLine(n) : n \in SentDuties }
    \cup { AdcLine(n) : n \in SentChannels }

\* near misses and malformed lines of ordinary length, the empty line among them
BadLines ==
    { <<"l","e","d"," ","s","i","d","e","w","a","y","s">>,
      <<"s","e","t","t"," ","2"," ","h","i","g","h">>,
      <<"H","e","l","p">>,
      <<" ","h","e","l","p">>,
      <<"t","e","m","p"," ">>,
      <<"g","e","t"," ","0","2","x">>,
      <<"s","e","t"," ","2">>,
      <<"s","e","t"," ","2"," ","H","i","g","h">>,
      <<"l","e","d"," "," ","o","n">>,
      <<"p","w","m"," ","2","5","6">>,
      <<"p","w","m"," ","9","9","9">>,
      <<"g","e","t"," ","0","2","5","6">>,
      <<"a","d","c"," ","-","1">>,
      <<"g","e","t"," ","2","\r">>,
      <<>> }

ShortLines == CommandLines \cup BadLines

\* lines at and beyond the capacity of the buffer
LongLines ==
    { Fill("x", Capacity),
      t_get \o t_space \o Fill("0", Capacity - 5) \o <<"8">>,
      Fill("x", Capacity + 1) \o t_led \o t_space \o t_on,
      Fill("x", Capacity + 1) \o t_set \o t_space \o <<"2">> \o t_space \o t_high }
    \cup { Fill("x", Capacity + k) : k \in 1..MaxOver }

\* lines with bytes above 0x7F
HighLines ==
    { <<"l","e","d"," ","0xE9">>,
      Fill("0xE9", Capacity \div 2),
      Fill("0xE9", Capacity \div 2 + 1) }

Lines == ShortLines \cup LongLines \cup HighLines

\* what the outside world can present
AdcValues == {0, 1023}
TempValues == {0, 304, 65535}

(***************************************************************************)
(* State.                                                                  *)
(***************************************************************************)
VARIABLES
    pc,           \* where main() is: "prompt", "read", "parse", "dispatch", "halt"
    rx,           \* the bytes on the serial line, not yet read
    buf,          \* read_line's buffer; at "parse" the line it returned
    parsed,       \* at "dispatch": what parse_command returned
    out,          \* the bytes written to the serial port in this iteration
    dpin,         \* d2..d12: the AnyPin values, [role, pin (the handle)]
    ddr,          \* the direction of each digital pin, as the hardware has it
    port,         \* the level each digital pin drives when it is an output
    led,          \* the level of d13
    pwm_duty,     \* the duty cycle of the PWM on d5
    pwm_enabled,  \* whether the PWM output is enabled
    sent,         \* history: the line the operator sent last
    hw0,          \* history: the hardware state when this iteration began
    last,         \* history: how the iteration that just ended went
    lastSet       \* history: per pin, the level of the last set executed on it

hw == <<dpin, ddr, port, led, pwm_duty, pwm_enabled>>

vars == <<pc, rx, buf, parsed, out, dpin, ddr, port, led, pwm_duty, pwm_enabled,
          sent, hw0, last, lastSet>>

\* the registry as a range check 2..=12
PinsContiguous == 2..12

\* the digital pins of the registry (main.rs, d2..d12 without d5)
Pins == {2, 3, 4, 6, 7, 8, 9, 10, 11, 12}

\* the channels as the range 0..5 without its end
ChannelsExclusive == 0..4

\* the analog channels a0..a5
Channels == {0, 1, 2, 3, 4, 5}

\* the analog input the arm of channel n reads, at index n + 1
AnalogPin == <<"a0", "a1", "a2", "a3", "a4", "a5">>

\* core::mem::zeroed(): the placeholder handle, the handle of no pin of the registry
Zeroed == 0

NoCmd == [kind |-> "None"]

\* how an iteration went: res is "overflow" (read_line failed), "invalid" (the
\* Err arm), "unknown" (a default arm), "sampled" (the ADC was read: chan, sample)
\* or "done"; for a get, sample is the level the outside world had on the pin
Outcome(res, cmd, chan, sample) ==
    [res |-> res, line |-> buf, cmd |-> cmd, chan |-> chan, sample |-> sample]

NoOutcome(res) ==
    [res |-> res, line |-> <<>>, cmd |-> NoCmd, chan |-> "none", sample |-> 0]

(***************************************************************************)
(* AnyPin.  Its methods act on the pins' part of the state, a record      *)
(* [dpin, ddr, port, panic]; `panic` is set when unreachable!() is run.    *)
(***************************************************************************)
PinState == [dpin |-> dpin, ddr |-> ddr, port |-> port, panic |-> FALSE]

\* Pin::into_output on a handle: the pin's direction becomes output
into_output(w, handle) ==
    IF handle \in Pins THEN [w EXCEPT !.ddr[handle] = "out"] ELSE w

\* Pin::into_floating_input on a handle: direction input, no pull-up
into_floating_input(w, handle) ==
    IF handle \in Pins
    THEN [w EXCEPT !.ddr[handle] = "in", !.port[handle] = FALSE]
    ELSE w

\* set_high / set_low writing the whole port register instead of the pin's bit
drive_port(w, handle, level) ==
    IF handle \in Pins THEN [w EXCEPT !.port = [q \in Pins |-> level]] ELSE w

\* Pin::set_high / set_low on an output handle
drive(w, handle, level) ==
    IF handle \in Pins THEN [w EXCEPT !.port[handle] = level] ELSE w

\* as_output, storing the placeholder instead of the handle moved out
as_output_placeholder(w, p) ==
    IF w.dpin[p].role = "DigitalOut" THEN w
    ELSE LET fake_pin == Zeroed
             moved    == w.dpin[p].pin
             replaced == [w EXCEPT !.dpin[p].pin = fake_pin]
             made     == into_output(replaced, moved)
         IN  [made EXCEPT !.dpin[p] = [role |-> "DigitalOut", pin |-> fake_pin]]

\* as_output, returning early in the wrong arm
as_output_returns(w, p) == w

\* AnyPin::as_output on d<p>
as_output(w, p) ==
    IF w.dpin[p].role = "DigitalOut" THEN w
    ELSE LET fake_pin == Zeroed
             moved    == w.dpin[p].pin
             replaced == [w EXCEPT !.dpin[p].pin = fake_pin]
             made     == into_output(replaced, moved)
         IN  [made EXCEPT !.dpin[p] = [role |-> "DigitalOut", pin |-> moved]]

\* AnyPin::as_input on d<p>
as_input(w, p) ==
    IF w.dpin[p].role = "DigitalIn" THEN w
    ELSE LET fake_pin == Zeroed
             moved    == w.dpin[p].pin
             replaced == [w EXCEPT !.dpin[p].pin = fake_pin]
             made     == into_floating_input(replaced, moved)
         IN  [made EXCEPT !.dpin[p] = [role |-> "DigitalIn", pin |-> moved]]

\* is_high, reading the sensed level in either role
is_high_sensed(w, p, ext) == ext

\* is_high, reading the driven level in either role
is_high_driven(w, p, ext) == w.port[w.dpin[p].pin]

\* AnyPin::is_high on d<p>; `ext` is the level the outside world puts on the pin
is_high(w, p, ext) ==
    IF w.dpin[p].role = "DigitalIn" THEN ext ELSE w.port[w.dpin[p].pin]

\* set_high / set_low without the call of as_output
set_level_in_place(w, p, level) ==
    IF w.dpin[p].role = "DigitalOut"
    THEN drive(w, w.dpin[p].pin, level)
    ELSE [w EXCEPT !.panic = TRUE]

\* AnyPin::set_high / set_low on d<p>
set_level(w, p, level) ==
    LET o == as_output(w, p)
    IN  IF o.dpin[p].role = "DigitalOut"
        THEN drive(o, o.dpin[p].pin, level)
        ELSE [o EXCEPT !.panic = TRUE]

set_high(w, p) == set_level(w, p, TRUE)

set_low(w, p) == set_level(w, p, FALSE)

(***************************************************************************)
(* Init: main() up to the loop.                                            *)
(***************************************************************************)
Init ==
    /\ pc = "prompt"
    /\ rx = <<>>
    /\ buf = <<>>
    /\ parsed = Err
    /\ out = <<>>
    /\ dpin = [p \in Pins |-> [role |-> "DigitalIn", pin |-> p]]
    /\ ddr = [p \in Pins |-> "in"]
    /\ port = [p \in Pins |-> FALSE]
    /\ led = FALSE
    /\ pwm_duty = 0
    /\ pwm_enabled = FALSE
    /\ sent = <<>>
    /\ hw0 = hw
    /\ last = NoOutcome("boot")
    /\ lastSet = [p \in Pins |-> [set |-> FALSE, level |-> FALSE]]

(***************************************************************************)
(* The operator: sends one line, newline-terminated, when the firmware     *)
(* waits in read_line and every byte sent before has been read.            *)
(***************************************************************************)
Send ==
    /\ rx = <<>>
    /\ pc = "read"
    /\ \E line \in Lines :
          /\ rx' = line \o <<NL>>
          /\ sent' = line
    /\ UNCHANGED <<pc, buf, parsed, out, hw, hw0, last, lastSet>>

(***************************************************************************)
(* The loop head: the prompt, and read_line's fresh buffer.                *)
(***************************************************************************)
\* the loop head without the uwrite! of the prompt
PromptSilent ==
    /\ pc = "prompt"
    /\ out' = <<>>
    /\ buf' = <<>>
    /\ pc' = "read"
    /\ hw0' = hw
    /\ last' = NoOutcome("reading")
    /\ UNCHANGED <<rx, parsed, hw, sent, lastSet>>

Prompt ==
    /\ pc = "prompt"
    /\ out' = PROMPT
    /\ buf' = <<>>
    /\ pc' = "read"
    /\ hw0' = hw
    /\ last' = NoOutcome("reading")
    /\ UNCHANGED <<rx, parsed, hw, sent, lastSet>>

\* heapless::String::push(byte as char): whether the char fits
fits(b, byte) == Len(b) + len_utf8(byte) <= Capacity

\* read_line, one byte: the newline ends the line
ReadNewline ==
    /\ pc = "read"
    /\ rx # <<>>
    /\ Head(rx) = NL
    /\ rx' = Tail(rx)
    /\ pc' = "parse"
    /\ UNCHANGED <<buf, parsed, out, hw, sent, hw0, last, lastSet>>

\* read_line, one byte: pushed on the buffer
ReadPush ==
    /\ pc = "read"
    /\ rx # <<>>
    /\ Head(rx) # NL
    /\ fits(buf, Head(rx))
    /\ rx' = Tail(rx)
    /\ buf' = buf \o encode_utf8(Head(rx))
    /\ UNCHANGED <<pc, parsed, out, hw, sent, hw0, last, lastSet>>

\* the failed read handed to the Err arm of the match instead of `continue`
ReadOverflowReported ==
    /\ pc = "read"
    /\ rx # <<>>
    /\ Head(rx) # NL
    /\ ~fits(buf, Head(rx))
    /\ rx' = Tail(rx)
    /\ pc' = "prompt"
    /\ buf' = <<>>
    /\ out' = out \o writeln(INVALID_COMMAND \o buf) \o writeln(HELP)
    /\ last' = Outcome("overflow", NoCmd, "none", 0)
    /\ UNCHANGED <<parsed, hw, sent, hw0, lastSet>>

\* read_line, one byte: the push fails, read_line returns Err and main continues
ReadOverflow ==
    /\ pc = "read"
    /\ rx # <<>>
    /\ Head(rx) # NL
    /\ ~fits(buf, Head(rx))
    /\ rx' = Tail(rx)
    /\ pc' = "prompt"
    /\ buf' = <<>>
    /\ last' = Outcome("overflow", NoCmd, "none", 0)
    /\ UNCHANGED <<parsed, out, hw, sent, hw0, lastSet>>

(***************************************************************************)
(* parse_command(&input), and the arms of the match on its result.  Every  *)
(* arm ends the iteration: the loop goes back to the prompt.               *)
(***************************************************************************)
Parse ==
    /\ pc = "parse"
    /\ \E r \in {parse_command(buf)} :
          /\ parsed' = r
          /\ pc' = IF r.ok /\ r.val.kind = "Unreachable" THEN "halt" ELSE "dispatch"
    /\ UNCHANGED <<rx, buf, out, hw, sent, hw0, last, lastSet>>

\* the guard of the arm for commands of one kind
Arm(kind) == pc = "dispatch" /\ parsed.ok /\ parsed.val.kind = kind

\* the end of an arm that changes no hardware state
Done(res, chan, sample) ==
    /\ pc' = "prompt"
    /\ parsed' = Err
    /\ last' = Outcome(res, parsed.val, chan, sample)
    /\ UNCHANGED <<rx, buf, sent, hw0>>

\* the Help arm with uwrite! in place of uwriteln!
DispatchHelpNoNewline ==
    /\ Arm("Help")
    /\ out' = out \o HELP
    /\ Done("done", "none", 0)
    /\ UNCHANGED <<hw, lastSet>>

DispatchHelp ==
    /\ Arm("Help")
    /\ out' = out \o writeln(HELP)
    /\ Done("done", "none", 0)
    /\ UNCHANGED <<hw, lastSet>>

\* the Led arm, acknowledging the command with a line
DispatchLedAcknowledged ==
    /\ Arm("Led")
    /\ led' = parsed.val.on
    /\ out' = out \o writeln(t_led \o <<":", " ">> \o fmt_bool(parsed.val.on))
    /\ Done("done", "none", 0)
    /\ UNCHANGED <<dpin, ddr, port, pwm_duty, pwm_enabled, lastSet>>

DispatchLed ==
    /\ Arm("Led")
    /\ led' = parsed.val.on
    /\ Done("done", "none", 0)
    /\ UNCHANGED <<out, dpin, ddr, port, pwm_duty, pwm_enabled, lastSet>>

\* GetPin, turning the pin to the input role with as_input before reading it
DispatchGetPinAsInput ==
    /\ Arm("GetPin")
    /\ parsed.val.pin \in Pins
    /\ LET w == as_input(PinState, parsed.val.pin)
       IN  /\ dpin' = w.dpin
           /\ ddr' = w.ddr
           /\ port' = w.port
           /\ \E ext \in BOOLEAN :
                 /\ out' = out \o writeln(<<"d">> \o fmt_dec(parsed.val.pin)
                                          \o <<":", " ">>
                                          \o fmt_bool(is_high(w, parsed.val.pin, ext)))
                 /\ Done("done", "none", ext)
    /\ UNCHANGED <<led, pwm_duty, pwm_enabled, lastSet>>

\* GetPin, an arm 2..12 of the inner match
DispatchGetPin ==
    /\ Arm("GetPin")
    /\ parsed.val.pin \in Pins
    /\ \E ext \in BOOLEAN :
          /\ out' = out \o writeln(<<"d">> \o fmt_dec(parsed.val.pin) \o <<":", " ">>
                                   \o fmt_bool(is_high(PinState, parsed.val.pin, ext)))
          /\ Done("done", "none", ext)
    /\ UNCHANGED <<hw, lastSet>>

\* GetPin, the default arm of the inner match
DispatchGetUnknown ==
    /\ Arm("GetPin")
    /\ parsed.val.pin \notin Pins
    /\ out' = out \o writeln(UNKNOWN_PIN \o fmt_dec(parsed.val.pin) \o VALID_DIGITAL)
    /\ Done("unknown", "none", 0)
    /\ UNCHANGED <<hw, lastSet>>

\* SetPin, an arm (2, true)..(12, false) of the inner match
DispatchSetPin ==
    /\ Arm("SetPin")
    /\ parsed.val.pin \in Pins
    /\ LET p == parsed.val.pin
           w == IF parsed.val.value THEN set_high(PinState, p) ELSE set_low(PinState, p)
       IN  /\ dpin' = w.dpin
           /\ ddr' = w.ddr
           /\ port' = w.port
           /\ pc' = IF w.panic THEN "halt" ELSE "prompt"
           /\ lastSet' = [lastSet EXCEPT
                             ![p] = [set |-> TRUE, level |-> parsed.val.value]]
    /\ parsed' = Err
    /\ last' = Outcome("done", parsed.val, "none", 0)
    /\ UNCHANGED <<rx, buf, sent, hw0, out, led, pwm_duty, pwm_enabled>>

\* SetPin, the default arm of the inner match
DispatchSetUnknown ==
    /\ Arm("SetPin")
    /\ parsed.val.pin \notin Pins
    /\ out' = out \o writeln(UNKNOWN_PIN \o fmt_dec(parsed.val.pin) \o VALID_DIGITAL)
    /\ Done("unknown", "none", 0)
    /\ UNCHANGED <<hw, lastSet>>

\* the Pwm arm without pwm.enable()
DispatchPwmNoEnable ==
    /\ Arm("Pwm")
    /\ pwm_duty' = parsed.val.duty_cycle
    /\ Done("done", "none", 0)
    /\ UNCHANGED <<out, dpin, ddr, port, led, pwm_enabled, lastSet>>

\* the Pwm arm, disabling the output for a duty cycle of 0
DispatchPwmOffAtZero ==
    /\ Arm("Pwm")
    /\ pwm_duty' = parsed.val.duty_cycle
    /\ pwm_enabled' = (parsed.val.duty_cycle # 0)
    /\ Done("done", "none", 0)
    /\ UNCHANGED <<out, dpin, ddr, port, led, lastSet>>

DispatchPwm ==
    /\ Arm("Pwm")
    /\ pwm_duty' = parsed.val.duty_cycle
    /\ pwm_enabled' = TRUE
    /\ Done("done", "none", 0)
    /\ UNCHANGED <<out, dpin, ddr, port, led, lastSet>>

\* Adc, an arm 0..5 of the inner match: the channel is sampled
DispatchAdc ==
    /\ Arm("Adc")
    /\ parsed.val.pin \in Channels
    /\ \E v \in AdcValues :
          /\ out' = out \o writeln(<<"a">> \o fmt_dec(parsed.val.pin) \o <<":", " ">>
                                   \o fmt_dec(v))
          /\ Done("sampled", AnalogPin[parsed.val.pin + 1], v)
    /\ UNCHANGED <<hw, lastSet>>

\* Adc, the default arm of the inner match
DispatchAdcUnknown ==
    /\ Arm("Adc")
    /\ parsed.val.pin \notin Channels
    /\ out' = out \o writeln(UNKNOWN_PIN \o fmt_dec(parsed.val.pin) \o VALID_ANALOG)
    /\ Done("unknown", "none", 0)
    /\ UNCHANGED <<hw, lastSet>>

\* the Temp arm, the sensor returning one of `readings`
DispatchTempOf(readings) ==
    /\ Arm("Temp")
    /\ \E v \in readings :
          /\ out' = out \o writeln(TEMP_PREFIX \o fmt_04X(v))
          /\ Done("sampled", "temperature", v)
    /\ UNCHANGED <<hw, lastSet>>

DispatchTemp == DispatchTempOf(TempValues)

\* the Err(_) arm
DispatchErr ==
    /\ pc = "dispatch"
    /\ ~parsed.ok
    /\ out' = out \o writeln(INVALID_COMMAND \o buf) \o writeln(HELP)
    /\ pc' = "prompt"
    /\ parsed' = Err
    /\ last' = Outcome("invalid", NoCmd, "none", 0)
    /\ UNCHANGED <<rx, buf, sent, hw0, hw, lastSet>>

Dispatch ==
    \/ DispatchHelp
    \/ DispatchLed
    \/ DispatchGetPin
    \/ DispatchGetUnknown
    \/ DispatchSetPin
    \/ DispatchSetUnknown
    \/ DispatchPwm
    \/ DispatchAdc
    \/ DispatchAdcUnknown
    \/ DispatchTemp
    \/ DispatchErr

\* one step of the firmware
Firmware == Prompt \/ ReadNewline \/ ReadPush \/ ReadOverflow \/ Parse \/ Dispatch

Next == Send \/ Firmware

Spec == Init /\ [][Next]_vars

(***************************************************************************)
(* parse_command alone: applied once to a line drawn from ParseInputs.     *)
(***************************************************************************)
\* the longest run of digits in a generated line
MaxDigits == 3

RECURSIVE DigitStrings(_)
\* the strings of 1..n digits over the digits 0, 2, 5, 6
DigitStrings(n) ==
    IF n = 0 THEN {}
    ELSE LET shorter == DigitStrings(n - 1)
         IN  { <<d>> : d \in {"0", "2", "5", "6"} }
             \cup shorter
             \cup { s \o <<d>> : s \in shorter, d \in {"0", "2", "5", "6"} }

ParseLeads == { <<>>, t_space }
ParseKeywords ==
    { t_help, t_led, t_get, t_set, t_pwm, t_adc, t_temp,
      <<"H","e","l","p">>, <<"s","e","t","t">>, <<>> }
ParseSeps == { <<>>, t_space, t_space \o t_space }
ParseArgs ==
    DigitStrings(MaxDigits)
    \cup { <<>>, t_on, t_off, <<"O","N">>, <<"x">>, <<"+","5">>, <<"9","9">>,
           <<"2","0","0">>, <<"2","0xE9">> }
ParseTails ==
    { <<>>, t_space, <<"x">>, t_space \o t_high, t_space \o t_low,
      t_space \o t_space \o t_high, t_space \o <<"H","i","g","h">>,
      t_space \o t_high \o t_space, t_space \o t_on }

ParseInputs ==
    { l \o k \o s \o a \o t :
        l \in ParseLeads, k \in ParseKeywords, s \in ParseSeps,
        a \in ParseArgs, t \in ParseTails }

ParseInit ==
    /\ pc = "parse"
    /\ rx = <<>>
    /\ buf \in ParseInputs
    /\ parsed = Err
    /\ out = PROMPT
    /\ dpin = [p \in Pins |-> [role |-> "DigitalIn", pin |-> p]]
    /\ ddr = [p \in Pins |-> "in"]
    /\ port = [p \in Pins |-> FALSE]
    /\ led = FALSE
    /\ pwm_duty = 0
    /\ pwm_enabled = FALSE
    /\ sent = buf
    /\ hw0 = hw
    /\ last = NoOutcome("reading")
    /\ lastSet = [p \in Pins |-> [set |-> FALSE, level |-> FALSE]]

ParseSpec == ParseInit /\ [][Parse]_vars

(***************************************************************************)
(* One iteration from the parse on, for every value of the numeric fields: *)
(* the line has been read, the hardware is in a state earlier commands can *)
(* have left it in.                                                        *)
(***************************************************************************)
\* per pin: "in" (input role), "low" or "high" (output role, the level driven)
DispatchPinConfigs ==
    { [p \in Pins |-> "in"],
      [p \in Pins |-> IF p \in {2, 8} THEN "high" ELSE "in"],
      [p \in Pins |-> IF p % 2 = 0 THEN "low" ELSE "high"],
      [p \in Pins |-> IF p > 6 THEN "high" ELSE IF p = 3 THEN "low" ELSE "in"] }

\* digit strings of a value above 255
OverflowNumbers ==
    { <<"2","5","6">>, <<"3","0","0">>, <<"9","9","9">>, <<"0","2","5","6">>,
      <<"1","0","0","0">> }

DispatchLines ==
    { GetLine(n) : n \in 0..U8Max }
    \cup { SetLine(n, l) : n \in 0..U8Max, l \in {t_high, t_low} }
    \cup { PwmLine(n) : n \in 0..U8Max }
    \cup { AdcLine(n) : n \in 0..U8Max }
    \cup { k \o t_space \o d : k \in {t_get, t_pwm, t_adc}, d \in OverflowNumbers }
    \cup { t_help, t_temp, t_led \o t_space \o t_on, t_led \o t_space \o t_off }
    \cup BadLines

DispatchInit ==
    /\ pc = "parse"
    /\ rx = <<>>
    /\ buf \in DispatchLines
    /\ parsed = Err
    /\ out = PROMPT
    /\ \E c \in DispatchPinConfigs :
          /\ dpin = [p \in Pins |->
                       [role |-> IF c[p] = "in" THEN "DigitalIn" ELSE "DigitalOut",
                        pin |-> p]]
          /\ ddr = [p \in Pins |-> IF c[p] = "in" THEN "in" ELSE "out"]
          /\ port = [p \in Pins |-> c[p] = "high"]
          /\ lastSet = [p \in Pins |-> [set |-> c[p] # "in", level |-> c[p] = "high"]]
    /\ led \in BOOLEAN
    /\ \E pwm \in { <<0, FALSE>>, <<128, TRUE>> } :
          /\ pwm_duty = pwm[1]
          /\ pwm_enabled = pwm[2]
    /\ sent = buf
    /\ hw0 = hw
    /\ last = NoOutcome("reading")

DispatchNext == Parse \/ Dispatch

DispatchSpec == DispatchInit /\ [][DispatchNext]_vars

(***************************************************************************)
(* The Temp arm for every reading of the sensor: `temp` has been read, the *)
(* sensor returns any 16-bit value.                                        *)
(***************************************************************************)
\* the largest value of the u16 that read_blocking returns
U16Max == 65535

SensorReadings == 0..U16Max

TempInit ==
    /\ pc = "parse"
    /\ rx = <<>>
    /\ buf = t_temp
    /\ parsed = Err
    /\ out = PROMPT
    /\ dpin = [p \in Pins |-> [role |-> "DigitalIn", pin |-> p]]
    /\ ddr = [p \in Pins |-> "in"]
    /\ port = [p \in Pins |-> FALSE]
    /\ led \in BOOLEAN
    /\ pwm_duty = 0
    /\ pwm_enabled = FALSE
    /\ sent = buf
    /\ hw0 = hw
    /\ last = NoOutcome("reading")
    /\ lastSet = [p \in Pins |-> [set |-> FALSE, level |-> FALSE]]

TempNext == Parse \/ DispatchTempOf(SensorReadings)

TempSpec == TempInit /\ [][TempNext]_vars

(***************************************************************************)
(* One iteration from the parse on, for the lines of both corpora: the     *)
(* generated lines of ParseInputs and the commands of DispatchLines.       *)
(***************************************************************************)
IterationInit == DispatchInit \/ ParseInit

IterationSpec == IterationInit /\ [][DispatchNext]_vars

(***************************************************************************)
(* The grammar of the command protocol, as a set of lines, and the command *)
(* each line of it denotes.                                                *)
(***************************************************************************)
RECURSIVE DecValue(_)
\* the number a string of digits denotes
DecValue(s) ==
    IF s = <<>> THEN 0
    ELSE 10 * DecValue(SubSeq(s, 1, Len(s) - 1)) + to_digit(s[Len(s)])

\* number := digit+, of a value that fits the 8-bit field
IsNumber(s) ==
    /\ s # <<>>
    /\ \A i \in 1..Len(s) : is_ascii_digit(s[i])
    /\ DecValue(s) <= U8Max

StartsWith(line, t) == Len(t) <= Len(line) /\ SubSeq(line, 1, Len(t)) = t

\* keyword " " number
IsKeywordNumber(line, kw) ==
    /\ StartsWith(line, kw \o t_space)
    /\ IsNumber(Drop(line, Len(kw) + 1))

\* "set" " " number " " ("high" | "low"): where the number ends
SetSplits(line) ==
    { k \in 5..Len(line) :
        /\ StartsWith(line, t_set \o t_space)
        /\ IsNumber(SubSeq(line, 5, k))
        /\ Drop(line, k) \in { t_space \o t_high, t_space \o t_low } }

InGrammar(line) ==
    \/ line \in { t_help, t_temp, t_led \o t_space \o t_on, t_led \o t_space \o t_off }
    \/ IsKeywordNumber(line, t_get)
    \/ IsKeywordNumber(line, t_pwm)
    \/ IsKeywordNumber(line, t_adc)
    \/ SetSplits(line) # {}

\* the Command a line of the grammar denotes
CommandOf(line) ==
    IF line = t_help THEN Help
    ELSE IF line = t_temp THEN Temp
    ELSE IF line = t_led \o t_space \o t_on THEN Led(TRUE)
    ELSE IF line = t_led \o t_space \o t_off THEN Led(FALSE)
    ELSE IF StartsWith(line, t_get) THEN GetPin(DecValue(Drop(line, 4)))
    ELSE IF StartsWith(line, t_pwm) THEN Pwm(DecValue(Drop(line, 4)))
    ELSE IF StartsWith(line, t_adc) THEN Adc(DecValue(Drop(line, 4)))
    ELSE LET k == CHOOSE k \in SetSplits(line) : TRUE
         IN  SetPin(DecValue(SubSeq(line, 5, k)), Drop(line, k) = t_space \o t_high)

\* a line of 7-bit bytes only
IsAscii(line) == \A i \in 1..Len(line) : line[i] \notin HighBytes

(***************************************************************************)
(* Properties.                                                             *)
(***************************************************************************)
\* the supported digital pins and analog channels, as the protocol states them
SupportedPins == {2, 3, 4, 6, 7, 8, 9, 10, 11, 12}
SupportedChannels == {0, 1, 2, 3, 4, 5}

\* the loop is between two iterations, and the one that just ended read a line
IterationEnded == pc = "prompt" /\ last.res # "boot"

\* C1 (Spec): once `set P <L>` has been executed on a supported pin P, every
\* `get P` processed before the next set on P writes exactly the line
\* "d<P>: <L>" (L written true for high, false for low), whatever the level the
\* outside world puts on the pin and whatever was processed in between.
C1_GetAfterSet ==
    (/\ IterationEnded
     /\ last.cmd.kind = "GetPin"
     /\ last.cmd.pin \in SupportedPins
     /\ lastSet[last.cmd.pin].set)
    => out = PROMPT \o <<"d">> \o fmt_dec(last.cmd.pin) \o <<":", " ">>
                    \o (IF lastSet[last.cmd.pin].level THEN t_true ELSE t_false)
                    \o <<NL>>

\* d8 was set high and a later get, with a low level outside, wrote "d8: true"
C1_Witness ==
    /\ IterationEnded
    /\ last.cmd = GetPin(8)
    /\ lastSet[8] = [set |-> TRUE, level |-> TRUE]
    /\ last.sample = FALSE
    /\ out = PROMPT \o <<"d","8",":"," ","t","r","u","e",NL>>

\* C2 (Spec): no part of a line of 33 or more characters is parsed or executed
\* as a command: while the bytes being read are those of such a line, the
\* parser never accepts a command.
C2_OverlongLineNeverExecuted ==
    Len(sent) > Capacity => ~(pc = "dispatch" /\ parsed.ok)

C4_UnknownPin ==
    (/\ IterationEnded
     /\ InGrammar(sent)
     /\ CommandOf(sent).kind \in {"GetPin", "SetPin"}
     /\ CommandOf(sent).pin \in (0..U8Max) \ SupportedPins)
    => /\ out = PROMPT \o UNKNOWN_PIN \o fmt_dec(CommandOf(sent).pin)
                       \o VALID_DIGITAL \o <<NL>>
       /\ hw = hw0

\* "set 13 low" was answered with the unknown-pin line
C4_Witness ==
    /\ IterationEnded
    /\ sent = <<"s","e","t"," ","1","3"," ","l","o","w">>
    /\ out = PROMPT \o UNKNOWN_PIN \o <<"1","3">>
                    \o VALID_DIGITAL
                    \o <<NL>>

\* C5 (ParseSpec): parse_command accepts a line exactly when the line is in the
\* grammar (case-sensitive keyword, single spaces, a number of digits of value
\* at most 255, nothing before or after), and then returns the Command with the
\* fields of the line and no rest; pin and channel numbers are not
\* range-checked (get 99 and adc 200 are accepted).
C5_ParserMatchesGrammar ==
    pc = "dispatch" =>
        /\ parsed.ok <=> InGrammar(buf)
        /\ parsed.ok => parsed.val = CommandOf(buf) /\ parsed.rest = <<>>
        /\ buf = t_get \o t_space \o <<"9","9">> => parsed.ok /\ parsed.val = GetPin(99)
        /\ buf = t_adc \o t_space \o <<"2","0","0">> => parsed.ok /\ parsed.val = Adc(200)

\* "adc 200", a line of the grammar with a channel out of range, was parsed
C5_Witness ==
    /\ pc = "dispatch"
    /\ buf = t_adc \o t_space \o <<"2","0","0">>
    /\ parsed.ok

\* C6 (DispatchSpec): for every n of 0..255, `pwm n` writes nothing, sets the
\* duty cycle to n and enables the PWM output; `pwm` with digits of a value
\* above 255 is answered as an invalid command (the two lines of C3) and leaves
\* the duty cycle and the enable state as they were.
C6_Pwm ==
    IterationEnded =>
        /\ (InGrammar(sent) /\ CommandOf(sent).kind = "Pwm")
           => /\ out = PROMPT
              /\ CommandOf(sent).duty_cycle \in 0..U8Max
              /\ pwm_duty = CommandOf(sent).duty_cycle
              /\ pwm_enabled
        /\ \A d \in OverflowNumbers :
              sent = t_pwm \o t_space \o d
              => /\ out = PROMPT \o INVALID_COMMAND \o sent \o <<NL>> \o HELP \o <<NL>>
                 /\ pwm_duty = hw0[5]
                 /\ pwm_enabled = hw0[6]

\* "pwm 255" was executed with the PWM disabled before it
C6_Witness ==
    /\ IterationEnded
    /\ sent = <<"p","w","m"," ","2","5","5">>
    /\ hw0[6] = FALSE
    /\ pwm_duty = 255
    /\ pwm_enabled

\* C7 (Spec): in every state of the loop each of the ten digital pins has one
\* role, DigitalIn or DigitalOut, which is the direction the hardware has, and
\* exactly one handle of the pin is stored, in the pin's own AnyPin; the zeroed
\* placeholder is never the stored handle.
C7_OneRoleOneHandle ==
    \A p \in SupportedPins :
        /\ dpin[p].role \in {"DigitalIn", "DigitalOut"}
        /\ dpin[p].role = "DigitalOut" <=> ddr[p] = "out"
        /\ dpin[p].pin # Zeroed
        /\ Cardinality({ q \in DOMAIN dpin : dpin[q].pin = p }) = 1
        /\ DOMAIN dpin = SupportedPins

\* two pins have gone through the transition to the output role
C7_Witness ==
    /\ dpin[2].role = "DigitalOut"
    /\ dpin[8].role = "DigitalOut"
    /\ pc = "read"

\* C8 (DispatchSpec): for every channel number n of 0..255, `adc n` with n
\* outside 0..5 writes the error line "unknown pin: <n>, valid pins are 0-5",
\* samples nothing and writes no "a<n>: " line; with n in 0..5 it samples the
\* analog input a<n> and writes exactly the line "a<n>: <value>".
C8_Adc ==
    (IterationEnded /\ InGrammar(sent) /\ CommandOf(sent).kind = "Adc")
    => LET n == CommandOf(sent).pin
       IN  IF n \in SupportedChannels
           THEN /\ last.res = "sampled"
                /\ last.chan = <<"a0", "a1", "a2", "a3", "a4", "a5">>[n + 1]
                /\ out = PROMPT \o <<"a">> \o fmt_dec(n) \o <<":", " ">>
                                \o fmt_dec(last.sample) \o <<NL>>
           ELSE /\ last.res = "unknown"
                /\ last.chan = "none"
                /\ out = PROMPT \o UNKNOWN_PIN \o fmt_dec(n) \o VALID_ANALOG \o <<NL>>

\* "adc 6" was answered with the error line, "adc 5" would have been sampled
C8_Witness ==
    /\ IterationEnded
    /\ sent = <<"a","d","c"," ","6">>
    /\ out = PROMPT \o UNKNOWN_PIN \o <<"6">>
                    \o VALID_ANALOG
                    \o <<NL>>

\* C9 (DispatchSpec): `get P` changes no pin's role or driven level, nor the LED
\* or the PWM; for a pin in input role it writes the level sensed outside, for
\* a pin in output role the level driven, whatever the level outside.
C9_GetIsReadOnly ==
    (IterationEnded /\ last.cmd.kind = "GetPin")
    => /\ hw = hw0
       /\ last.cmd.pin \in SupportedPins
          => out = PROMPT \o <<"d">> \o fmt_dec(last.cmd.pin) \o <<":", " ">>
                          \o (IF dpin[last.cmd.pin].role = "DigitalIn"
                              THEN (IF last.sample THEN t_true ELSE t_false)
                              ELSE (IF port[last.cmd.pin] THEN t_true ELSE t_false))
                          \o <<NL>>

\* a get of an input pin with a high level outside, beside pins driven low
C9_Witness ==
    /\ IterationEnded
    /\ last.cmd = GetPin(4)
    /\ dpin[4].role = "DigitalIn"
    /\ dpin[3].role = "DigitalOut"
    /\ last.sample = TRUE
    /\ out = PROMPT \o <<"d","4",":"," ","t","r","u","e",NL>>

(***************************************************************************)
(* Progress.  The firmware is one sequential program: whenever it can take *)
(* a step it takes one (it waits only in read_line, for a byte).  The      *)
(* operator keeps sending.                                                 *)
(***************************************************************************)
FairSpec == Spec /\ WF_vars(Firmware) /\ WF_vars(Send)

\* C10 (FairSpec): no input leads to a halt; once bytes have been sent, the
\* loop reads them all and comes back to the prompt, waiting for the next line:
\* after a command, a semantic error, a parse error and an overlong line alike.
C10_NeverStuck ==
    /\ [](pc # "halt")
    /\ [](pc \in {"prompt", "read", "parse", "dispatch"})
    /\ (rx # <<>>) ~> (rx = <<>> /\ pc = "read" /\ out = PROMPT)
    /\ (pc # "read") ~> (pc = "read" /\ out = PROMPT)

\* the loop is back at the prompt after an overlong line, bytes of it still unread
C10_Witness ==
    /\ pc = "prompt"
    /\ last.res = "overflow"
    /\ rx # <<>>
    /\ Len(sent) > Capacity

\* whether s is a sequence of whole lines, each ended by the newline
WholeLines(s) == s = <<>> \/ s[Len(s)] = NL

\* C11 (Spec): `out` is the output stream from the last prompt on.  Every
\* iteration begins by writing the prompt and then attempts to read a line;
\* while the line is read and parsed nothing but that prompt has been written;
\* a response is written only by the arm that executes the line read after that
\* prompt, as whole lines behind it, and the next write is the next prompt, so
\* no two prompts are written without a read attempt between them.
C11_PromptThenResponse ==
    /\ [](pc \in {"read", "parse", "dispatch"} => out = PROMPT)
    /\ [](pc = "prompt" /\ last.res # "boot"
          => /\ SubSeq(out, 1, Len(PROMPT)) = PROMPT
             /\ WholeLines(Drop(out, Len(PROMPT))))
    /\ [][/\ pc = "prompt" => pc' = "read" /\ out' = PROMPT
          /\ pc' = "prompt" => pc \in {"read", "dispatch"}
          /\ (pc = "read" /\ pc' = "prompt") => rx' # rx /\ out' = out
          /\ (out' # out /\ pc # "prompt")
             => /\ pc = "dispatch" /\ pc' = "prompt"
                /\ SubSeq(out', 1, Len(out)) = out]_vars

\* the answer to `get 2` stands between the prompt and the end of the iteration
C11_Witness ==
    /\ IterationEnded
    /\ sent = <<"g","e","t"," ","2">>
    /\ out = PROMPT \o <<"d","2",":"," ","f","a","l","s","e",NL>>

\* the help text, as the protocol fixes it
HelpText ==
    <<"c","o","m","m","a","n","d","s",":"," ","h","e","l","p",","," ",
      "l","e","d"," ","o","n","|","o","f","f",","," ",
      "g","e","t"," ","<","p","i","n",">",","," ",
      "s","e","t"," ","<","p","i","n",">"," ","h","i","g","h","|","l","o","w",","," ",
      "p","w","m"," ","<","0","-","2","5","5",">",","," ",
      "a","d","c"," ","<","0","-","5",">",","," ","t","e","m","p">>

\* C12 (Spec): in every state the device can be in, after any history of valid,
\* invalid and overlong lines, `help` writes exactly one line, the fixed help
\* text, and leaves every pin's role and level, the LED and the PWM as they
\* were.
C12_HelpIsFixed ==
    (IterationEnded /\ last.cmd.kind = "Help")
    => /\ out = PROMPT \o HelpText \o <<NL>>
       /\ hw = hw0

\* help was answered with the LED on, the PWM enabled and d2 driven high, right
\* after the operator's line
C12_Witness ==
    /\ IterationEnded
    /\ sent = t_help
    /\ last.cmd = Help
    /\ led /\ pwm_enabled /\ pwm_duty = 255
    /\ dpin[2].role = "DigitalOut" /\ port[2]
    /\ out = PROMPT \o HELP \o <<NL>>

\* the sixteen uppercase hexadecimal digits, by value
UpperHex ==
    [c \in {"0","1","2","3","4","5","6","7","8","9","A","B","C","D","E","F"} |->
       CASE c = "0" -> 0  [] c = "1" -> 1  [] c = "2" -> 2  [] c = "3" -> 3
         [] c = "4" -> 4  [] c = "5" -> 5  [] c = "6" -> 6  [] c = "7" -> 7
         [] c = "8" -> 8  [] c = "9" -> 9  [] c = "A" -> 10 [] c = "B" -> 11
         [] c = "C" -> 12 [] c = "D" -> 13 [] c = "E" -> 14 [] c = "F" -> 15]

\* C13 (TempSpec): for every reading v of 0..65535, `temp` writes exactly one
\* line: "temp: 0x" and exactly four uppercase hexadecimal digits, which are v
\* padded with zeros on the left (0x0130 is written "temp: 0x0130").
C13_TempHex ==
    (IterationEnded /\ last.cmd.kind = "Temp")
    => /\ last.sample \in 0..65535
       /\ Len(out) = 15
       /\ SubSeq(out, 1, 10) = <<">"," ","t","e","m","p",":"," ","0","x">>
       /\ \A i \in 11..14 : out[i] \in DOMAIN UpperHex
       /\ 4096 * UpperHex[out[11]] + 256 * UpperHex[out[12]]
            + 16 * UpperHex[out[13]] + UpperHex[out[14]] = last.sample
       /\ out[15] = NL
       /\ last.sample = 304 => SubSeq(out, 11, 14) = <<"0","1","3","0">>
       /\ hw = hw0

\* the reading 0x00AF was written with two zeros of padding and uppercase digits
C13_Witness ==
    /\ IterationEnded
    /\ last.cmd = Temp
    /\ last.sample = 175
    /\ out = PROMPT \o <<"t","e","m","p",":"," ","0","x","0","0","A","F",NL>>

\* C14 (Spec): when read_line fails, the iteration writes nothing behind its
\* prompt (no error line, no echo of the bytes read so far, no help line) and
\* changes no hardware state; the loop goes from the read straight to the next
\* prompt.  The one failure the serial port of this build produces is the
\* buffer overflow: the read error of its USART is Infallible.
C14_FailedReadIsSilent ==
    /\ [](pc = "prompt" /\ last.res = "overflow" => out = PROMPT /\ hw = hw0)
    /\ [][(pc = "read" /\ pc' = "prompt")
          => /\ last'.res = "overflow"
             /\ out' = out /\ out = PROMPT
             /\ hw' = hw
             /\ parsed' = parsed]_vars

\* a line of 33 characters overflowed with the LED on and d8 driven high
C14_Witness ==
    /\ pc = "prompt"
    /\ last.res = "overflow"
    /\ sent = Fill("x", Capacity + 1)
    /\ rx = <<NL>>
    /\ led /\ port[8]
    /\ out = PROMPT

RECURSIVE Chars(_)
\* the characters of a buffer: the two bytes of an encoded char read as one
Chars(b) ==
    IF b = <<>> THEN <<>>
    ELSE IF Len(b) >= 2 /\ \E h \in HighBytes : SubSeq(b, 1, 2) = encode_utf8(h)
         THEN <<CHOOSE h \in HighBytes : SubSeq(b, 1, 2) = encode_utf8(h)>>
              \o Chars(Drop(b, 2))
         ELSE <<b[1]>> \o Chars(Drop(b, 1))

\* C15 (Spec): for a line of at most 32 bytes of any values, read_line returns
\* exactly the characters sent, in order, without the newline; it fails only
\* when a 33rd byte arrives before the newline.
C15_ReadLineUpTo32 ==
    /\ (pc = "parse" /\ Len(sent) <= Capacity) => Chars(buf) = sent
    /\ (pc = "prompt" /\ last.res = "overflow") => Len(sent) > Capacity

\* C16 (DispatchSpec): `led on`, `led off`, `set <pin> high|low` on a supported
\* pin and `pwm <n>` write nothing: the output of their iteration is its prompt
\* alone.  `led on` / `led off` leaves the LED on / off and every pin's role,
\* direction and level and the PWM duty and enable state as they were.
C16_SilentCommands ==
    (IterationEnded /\ InGrammar(sent))
    => LET c == CommandOf(sent)
       IN  /\ (\/ c.kind \in {"Led", "Pwm"}
               \/ c.kind = "SetPin" /\ c.pin \in SupportedPins)
              => out = PROMPT /\ last.res = "done"
           /\ c.kind = "Led"
              => /\ led = (sent = <<"l","e","d"," ","o","n">>)
                 /\ <<dpin, ddr, port>> = <<hw0[1], hw0[2], hw0[3]>>
                 /\ <<pwm_duty, pwm_enabled>> = <<hw0[5], hw0[6]>>

\* `led off` turned the LED off, silently, with the PWM running and pins driven
C16_Witness ==
    /\ IterationEnded
    /\ sent = <<"l","e","d"," ","o","f","f">>
    /\ hw0[4] = TRUE
    /\ ~led
    /\ pwm_enabled /\ port[8]
    /\ out = PROMPT

\* C17 (IterationSpec): no line, of the grammar or not, reaches the
\* unreachable!() of parse_command's keyword match, and no set reaches the
\* unreachable!() of set_high / set_low: the program never halts.  After
\* `set P high|low` on a supported pin P, whether P was in input or in output
\* role before, P is in output role, its direction is output and it drives the
\* requested level.
C17_SetAlwaysDrives ==
    /\ pc # "halt"
    /\ ~(parsed.ok /\ parsed.val.kind = "Unreachable")
    /\ (IterationEnded /\ last.cmd.kind = "SetPin" /\ last.cmd.pin \in SupportedPins)
       => /\ dpin[last.cmd.pin].role = "DigitalOut"
          /\ ddr[last.cmd.pin] = "out"
          /\ port[last.cmd.pin] = last.cmd.value

\* `set 4 low` on a pin in input role left it an output driving low
C17_Witness ==
    /\ IterationEnded
    /\ last.cmd = SetPin(4, FALSE)
    /\ hw0[1][4].role = "DigitalIn"
    /\ dpin[4].role = "DigitalOut"
    /\ ~port[4]

\* C18 (Spec): the ten digital pins start in input role; in every state a pin
\* is in output role exactly when a `set` on its number has been executed
\* before; no step, of a get, an invalid line or an overlong line among them,
\* takes a pin from output role back to input role.
C18_RolesOnlyInToOut ==
    /\ \A p \in SupportedPins : dpin[p].role = "DigitalIn" /\ ddr[p] = "in"
    /\ [](\A p \in SupportedPins : dpin[p].role = "DigitalOut" <=> lastSet[p].set)
    /\ [][\A p \in SupportedPins :
             /\ dpin[p].role = "DigitalOut" => dpin'[p].role = "DigitalOut"
             /\ ddr[p] = "out" => ddr'[p] = "out"
             /\ dpin'[p].role # dpin[p].role
                => Arm("SetPin") /\ parsed.val.pin = p]_vars

\* d2 is still an output after a get on it, d8 has never been set
C18_Witness ==
    /\ IterationEnded
    /\ last.cmd = GetPin(2)
    /\ lastSet[2].set
    /\ dpin[2].role = "DigitalOut"
    /\ ~lastSet[8].set
    /\ dpin[8].role = "DigitalIn"

\* C19 (DispatchSpec): `set P high|low` on a supported pin P changes pin P
\* only: every other digital pin keeps its role, direction and driven level,
\* and the LED and the PWM duty and enable state are as before.  No `set` or
\* `get`, whatever its pin number (5 and 13 among them), changes the LED or the
\* PWM.
C19_SetChangesOnlyItsPin ==
    (IterationEnded /\ last.cmd.kind \in {"SetPin", "GetPin"})
    => /\ <<led, pwm_duty, pwm_enabled>> = <<hw0[4], hw0[5], hw0[6]>>
       /\ \A q \in SupportedPins :
             (last.cmd.kind = "GetPin" \/ q # last.cmd.pin)
             => /\ dpin[q] = hw0[1][q]
                /\ ddr[q] = hw0[2][q]
                /\ port[q] = hw0[3][q]

\* `set 3 high` flipped d3, beside an output, an input and the LED on
C19_Witness ==
    /\ IterationEnded
    /\ last.cmd = SetPin(3, TRUE)
    /\ hw0[3][3] = FALSE
    /\ port[3]
    /\ dpin[7].role = "DigitalOut" /\ port[7]
    /\ dpin[4].role = "DigitalIn"
    /\ led

\* C20 (Spec): the PWM output starts disabled and stays so until a `pwm`
\* command is executed; every executed `pwm <n>`, `pwm 0` among them, leaves
\* it enabled with the duty cycle n; no other step changes the duty cycle or
\* the enable state, so the output, once enabled, is never disabled and the
\* duty cycle is the n of the last `pwm` executed.
C20_PwmEnabledForever ==
    /\ ~pwm_enabled
    /\ [][/\ pwm_enabled => pwm_enabled'
          /\ (pc = "dispatch" /\ parsed.ok /\ parsed.val.kind = "Pwm")
             => /\ pwm_enabled'
                /\ pwm_duty' = parsed.val.duty_cycle
                /\ pwm_duty' = DecValue(Drop(buf, 4))
          /\ ~(pc = "dispatch" /\ parsed.ok /\ parsed.val.kind = "Pwm")
             => /\ pwm_enabled' = pwm_enabled
                /\ pwm_duty' = pwm_duty]_vars

\* `pwm 0` was executed after `pwm 255`: the output is enabled with the duty 0
C20_Witness ==
    /\ IterationEnded
    /\ last.cmd = Pwm(0)
    /\ hw0[5] = 255 /\ hw0[6] = TRUE
    /\ pwm_enabled
    /\ pwm_duty = 0

====
